---------------------------- MODULE Spec2Model ----------------------------
(***************************************************************************)
(* Model of the ORchestrator.ai scheduling engine (src/main.py): the three *)
(* collections provider / shifttype / assignment, the two creation         *)
(* endpoints and the /generate handler, stepped at the granularity of one  *)
(* store read or one store insert.                                         *)
(***************************************************************************)
EXTENDS Integers, Sequences, FiniteSets, TLC

\* ------------------------------------------------------------------ bounds
MaxProviders == 2
MaxShifts == 2
MaxDay == 3
MaxRuns == 2
\* the last day of a range requested while runs overlap
MaxConcDay == 2
MaxCreates == 2

\* ------------------------------------------------------------ input domains
None == "None"

ProviderIdList == <<"A", "B", "C", "D">>
ShiftIdList == <<"s1", "s2", "s3", "s4">>

\* qualification lists a registered provider may carry
QualLists == {{}, {"X"}}

\* POST /providers bodies: an id already stored, or the next fresh one
ProviderInputs ==
    [id : {ProviderIdList[k] : k \in 1..MaxProviders}, qualifications : QualLists]

\* POST /shift-types bodies: shift type k is located at site k;
\* requires_qualification may be absent, empty or a tag
SiteList == <<"S1", "S2", "S3", "S4">>

ShiftInputs ==
    UNION {[id : {ShiftIdList[k]}, name : {"REG"}, site : {SiteList[k]},
            requires_qualification : {None, "", "X"}]
           \cup
           [id : {ShiftIdList[k]}, name : {"CALL"}, site : {SiteList[k]},
            requires_qualification : {None}] : k \in 1..MaxShifts}

Days == 1..MaxDay
RunIds == 1..MaxRuns
CreateIds == 1..MaxCreates

VARIABLES
    providers,     \* db["provider"]: documents in insertion order
    shifts,        \* db["shifttype"]
    assignments,   \* db["assignment"]
    reply,         \* the creation response the last step sent, NoReply if none
    runs,          \* per /generate request: its locals, position and response
    creates        \* per interleaved creation request: its document and position

vars == <<providers, shifts, assignments, reply, runs, creates>>

\* ----------------------------------------------------------------- helpers
Min(a, b) == IF a <= b THEN a ELSE b

\* date.fromordinal(..) followed by str(..): the ISO form of the day, as the
\* triple (year, month, day); ordinal 1 is 2024-01-30
DateStr(o) == IF o <= 2 THEN <<2024, 1, 29 + o>> ELSE <<2024, 2, o - 2>>

\* mutant: the message names the following day
ConflictMsg_NextDay(o) == <<"No eligible provider for", DateStr(o + 1)>>

\* f"No eligible provider for {day_date}"
ConflictMsg(o) == <<"No eligible provider for", DateStr(o)>>

\* db[PROVIDER_COL].find_one({"id": id})
ProviderExists(id) == \E k \in 1..Len(providers) : providers[k].id = id

\* mutant: the lookup filters on the name field
ShiftExists_WrongKey(id) == \E k \in 1..Len(shifts) : shifts[k].name = id

\* db[SHIFT_COL].find_one({"id": id})
ShiftExists(id) == \E k \in 1..Len(shifts) : shifts[k].id = id

\* mutant: find() without the name filter
RegShifts_Unfiltered(col) == col

\* list(db[SHIFT_COL].find({"name": "REG"}))
IsReg(s) == s.name = "REG"
RegShifts(col) == SelectSeq(col, IsReg)

\* `not providers or not shifts`
ConfigError(provs, shs) == provs = <<>> \/ shs = <<>>

\* mutant: the length of the range taken whichever way round it is given
NumDays_Abs(start, end) == (IF end < start THEN start - end ELSE end - start) + 1

\* mutant: the range taken as exclusive of its last day
NumDays_Exclusive(start, end) == end - start

\* (req.end_date - req.start_date).days + 1
NumDays(start, end) == (end - start) + 1

\* mutant: one slot per REG shift type, whatever the number of providers
Slots_ShiftCount(provs, shs) == Len(shs)

\* min(len(providers), len(shifts))
Slots(provs, shs) == Min(Len(provs), Len(shs))

\* mutant: the lookup keyed by the ordinal instead of the ISO date
Booked_OrdinalKey(col, pid, o) ==
    \E k \in 1..Len(col) : col[k].provider_id = pid /\ col[k].date = <<o>>

\* mutant: only the first stored assignment is compared
Booked_FirstOnly(col, pid, o) ==
    /\ Len(col) >= 1
    /\ col[1].provider_id = pid /\ col[1].date = DateStr(o)

\* db[ASSIGN_COL].find_one({"provider_id": pid, "date": str(day_date)})
Booked(col, pid, o) ==
    \E k \in 1..Len(col) : col[k].provider_id = pid /\ col[k].date = DateStr(o)

\* Python truthiness of needed_qual: None and "" are both falsy
Truthy(q) == q # None /\ q # ""

\* mutant: the gate inverted (skips the providers that hold the tag)
QualOk_Inverted(needed, prov) == ~(Truthy(needed) /\ needed \in prov.qualifications)

\* the qualification gate passes
QualOk(needed, prov) == ~(Truthy(needed) /\ needed \notin prov.qualifications)

\* mutant: the candidate budget one short
TriesLeft_OffByOne(tries, n) == tries < n - 1

\* mutant: one more candidate taken once the budget of the slot is spent
TriesLeft_Inclusive(tries, n) == tries <= n

\* `while tries < len(providers)`
TriesLeft(tries, n) == tries < n

\* mutant: the rotation taken one position ahead of the cursor
Candidate_Ahead(provs, p) == provs[((p + 1) % Len(provs)) + 1]

\* providers[p % len(providers)]
Candidate(provs, p) == provs[(p % Len(provs)) + 1]

\* mutant: the cursor kept across calls, resumed where the previous call left it
StartCursor_Carried(r) == IF r > 1 THEN runs[r - 1].p ELSE 0

\* line 137: p = 0, local to the call r
StartCursor(r) == 0

NoResp == [code |-> 0]
NoReply == [op |-> "none", id |-> None, code |-> 0]

IdleRun ==
    [pc |-> "idle", start |-> 1, end |-> 1, providers |-> <<>>, shifts |-> <<>>,
     site |-> None, needed_qual |-> None, i |-> 0, slot |-> 0, tries |-> 0,
     p |-> 0, created |-> 0, conflicts |-> <<>>, resp |-> NoResp,
     base |-> 0, seen |-> 0, made |-> {}]

\* a creation request not yet received
IdleCreate == [pc |-> "idle", kind |-> None, doc |-> [id |-> None], code |-> 0]

Init ==
    /\ providers = <<>>
    /\ shifts = <<>>
    /\ assignments = <<>>
    /\ reply = NoReply
    /\ runs = [r \in RunIds |-> IdleRun]
    /\ creates = [c \in CreateIds |-> IdleCreate]

\* ------------------------------------------------------- creation endpoints
\* create_document(collection, data): one document appended to the collection
create_document(col, doc) == Append(col, doc)

\* POST /providers
create_provider(provider) ==
    /\ IF ProviderExists(provider.id)
          THEN /\ reply' = [op |-> "create_provider", id |-> provider.id, code |-> 400]
               /\ UNCHANGED providers
          ELSE /\ providers' = create_document(providers, provider)
               /\ reply' = [op |-> "create_provider", id |-> provider.id, code |-> 200]
    /\ UNCHANGED <<shifts, assignments, runs, creates>>

\* POST /shift-types
create_shift_type(shift) ==
    /\ IF ShiftExists(shift.id)
          THEN /\ reply' = [op |-> "create_shift_type", id |-> shift.id, code |-> 400]
               /\ UNCHANGED shifts
          ELSE /\ shifts' = create_document(shifts, shift)
               /\ reply' = [op |-> "create_shift_type", id |-> shift.id, code |-> 200]
    /\ UNCHANGED <<providers, assignments, runs, creates>>

\* the creation handlers step by step: the existence lookup, then the insert
\* lines 87-89: find_one on the id, 400 if a document came back
create_provider_lookup(c, provider) ==
    /\ creates[c].pc = "idle"
    /\ IF ProviderExists(provider.id)
          THEN /\ creates' = [creates EXCEPT ![c] = [pc |-> "done", kind |-> "provider",
                                                     doc |-> provider, code |-> 400]]
               /\ reply' = [op |-> "create_provider", id |-> provider.id, code |-> 400]
          ELSE /\ creates' = [creates EXCEPT ![c] = [pc |-> "insert", kind |-> "provider",
                                                     doc |-> provider, code |-> 0]]
               /\ reply' = NoReply
    /\ UNCHANGED <<providers, shifts, assignments, runs>>

\* lines 90-91: create_document, return provider
create_provider_insert(c) ==
    /\ creates[c].pc = "insert"
    /\ creates[c].kind = "provider"
    /\ providers' = create_document(providers, creates[c].doc)
    /\ creates' = [creates EXCEPT ![c] = [@ EXCEPT !.pc = "done", !.code = 200]]
    /\ reply' = [op |-> "create_provider", id |-> creates[c].doc.id, code |-> 200]
    /\ UNCHANGED <<shifts, assignments, runs>>

\* lines 104-106: find_one on the id, 400 if a document came back
create_shift_type_lookup(c, shift) ==
    /\ creates[c].pc = "idle"
    /\ IF ShiftExists(shift.id)
          THEN /\ creates' = [creates EXCEPT ![c] = [pc |-> "done", kind |-> "shift",
                                                     doc |-> shift, code |-> 400]]
               /\ reply' = [op |-> "create_shift_type", id |-> shift.id, code |-> 400]
          ELSE /\ creates' = [creates EXCEPT ![c] = [pc |-> "insert", kind |-> "shift",
                                                     doc |-> shift, code |-> 0]]
               /\ reply' = NoReply
    /\ UNCHANGED <<providers, shifts, assignments, runs>>

\* lines 107-108: create_document, return shift
create_shift_type_insert(c) ==
    /\ creates[c].pc = "insert"
    /\ creates[c].kind = "shift"
    /\ shifts' = create_document(shifts, creates[c].doc)
    /\ creates' = [creates EXCEPT ![c] = [@ EXCEPT !.pc = "done", !.code = 200]]
    /\ reply' = [op |-> "create_shift_type", id |-> creates[c].doc.id, code |-> 200]
    /\ UNCHANGED <<providers, assignments, runs>>

\* ------------------------------------------------------------ POST /generate
\* mutant: the days counted down from the end of the range
DayOf_FromEnd(run) == run.end - run.i

\* the day the run is working on: req.start_date.toordinal() + i
DayOf(run) == run.start + run.i

\* the end of a slot (break, or the while's else): next slot, next day, or return
NextSlot(run) ==
    IF run.slot + 1 < Slots(run.providers, run.shifts)
      THEN [run EXCEPT !.slot = run.slot + 1, !.tries = 0]
      ELSE IF run.i + 1 < NumDays(run.start, run.end)
        THEN [run EXCEPT !.i = run.i + 1, !.slot = 0, !.tries = 0]
        ELSE [run EXCEPT !.pc = "done",
                         !.resp = [code |-> 200, created |-> run.created,
                                   conflicts |-> run.conflicts]]

\* line 129: providers = list(db[PROVIDER_COL].find())
generate_read_providers(r, start, end) ==
    /\ runs[r].pc = "idle"
    /\ runs' = [runs EXCEPT ![r] = [@ EXCEPT !.pc = "readShifts", !.start = start,
                                             !.end = end, !.providers = providers,
                                             !.base = Len(assignments)]]
    /\ reply' = NoReply
    /\ UNCHANGED <<providers, shifts, assignments, creates>>

\* lines 130-139: the REG shift types, the precondition, the locals
generate_read_shifts(r) ==
    /\ runs[r].pc = "readShifts"
    /\ LET run == runs[r]
           shs == RegShifts(shifts)
       IN IF ConfigError(run.providers, shs)
            THEN runs' = [runs EXCEPT ![r] =
                            [run EXCEPT !.pc = "error",
                                        !.resp = [code |-> 400,
                                                  detail |-> "Providers and REG Shift Type required"]]]
            ELSE LET ready == [run EXCEPT !.pc = "loop", !.shifts = shs,
                                          !.site = shs[1].site,
                                          !.needed_qual = shs[1].requires_qualification,
                                          !.conflicts = <<>>, !.created = 0,
                                          !.p = StartCursor(r),
                                          !.i = 0, !.slot = 0, !.tries = 0]
                 IN runs' = [runs EXCEPT ![r] =
                               IF NumDays(run.start, run.end) >= 1
                                 THEN ready
                                 ELSE [ready EXCEPT !.pc = "done",
                                                    !.resp = [code |-> 200, created |-> 0,
                                                              conflicts |-> <<>>]]]
    /\ reply' = NoReply
    /\ UNCHANGED <<providers, shifts, assignments, creates>>

\* lines 146-155 (and 166-167): one candidate taken in rotation and checked
generate_try(r) ==
    /\ runs[r].pc = "loop"
    /\ LET run == runs[r]
           n == Len(run.providers)
           prov == Candidate(run.providers, run.p)
           took == [run EXCEPT !.p = run.p + 1, !.tries = run.tries + 1,
                               !.seen = Len(assignments)]
       IN runs' = [runs EXCEPT ![r] =
            IF Booked(assignments, prov.id, DayOf(run)) \/ ~QualOk(run.needed_qual, prov)
              THEN IF TriesLeft(took.tries, n)
                     THEN took
                     ELSE NextSlot([took EXCEPT
                              !.conflicts = Append(run.conflicts, ConflictMsg(DayOf(run)))])
              ELSE [took EXCEPT !.pc = "insert"]]
    /\ reply' = NoReply
    /\ UNCHANGED <<providers, shifts, assignments, creates>>

\* mutant: the insert written as an upsert keyed by the date, which replaces
\* the assignment already stored for that day
generate_insert_UpsertByDate(r) ==
    /\ runs[r].pc = "insert"
    /\ LET run == runs[r]
           prov == Candidate(run.providers, run.p - 1)
           doc == [provider_id |-> prov.id, date |-> DateStr(DayOf(run)),
                   shift_type |-> "REG", site |-> run.site, generated_by |-> "AI"]
           hit == {k \in 1..Len(assignments) : assignments[k].date = doc.date}
           at == IF hit = {} THEN Len(assignments) + 1 ELSE CHOOSE k \in hit : TRUE
       IN /\ assignments' = IF hit = {} THEN Append(assignments, doc)
                                         ELSE [assignments EXCEPT ![at] = doc]
          /\ runs' = [runs EXCEPT ![r] =
                        NextSlot([run EXCEPT !.pc = "loop", !.created = run.created + 1,
                                             !.made = run.made \cup {at}])]
    /\ reply' = NoReply
    /\ UNCHANGED <<providers, shifts, creates>>

\* lines 157-165: the insert of the approved candidate, created += 1, break
generate_insert(r) ==
    /\ runs[r].pc = "insert"
    /\ LET run == runs[r]
           prov == Candidate(run.providers, run.p - 1)
       IN /\ assignments' = create_document(assignments,
                                [provider_id |-> prov.id, date |-> DateStr(DayOf(run)),
                                 shift_type |-> "REG", site |-> run.site,
                                 generated_by |-> "AI"])
          /\ runs' = [runs EXCEPT ![r] =
                        NextSlot([run EXCEPT !.pc = "loop", !.created = run.created + 1,
                                             !.made = run.made \cup {Len(assignments) + 1}])]
    /\ reply' = NoReply
    /\ UNCHANGED <<providers, shifts, creates>>

\* ------------------------------------------------------------ specifications
Active(r) == runs[r].pc \in {"readShifts", "loop", "insert"}
Finished(r) == runs[r].pc \in {"done", "error"}
Quiescent == \A r \in RunIds : ~Active(r)

\* requests arrive in the order of their numbers
MayStart(r) == \A q \in RunIds : q < r => runs[q].pc # "idle"

\* the ids a creation request may carry: one already issued, or the next one
KnownProviderIds == {ProviderIdList[k] : k \in 1..Min(Len(providers) + 1, MaxProviders)}
KnownShiftIds == {ShiftIdList[k] : k \in 1..Min(Len(shifts) + 1, MaxShifts)}

CreateProvider ==
    \E provider \in ProviderInputs :
        provider.id \in KnownProviderIds /\ create_provider(provider)

CreateShiftType ==
    \E shift \in ShiftInputs :
        shift.id \in KnownShiftIds /\ create_shift_type(shift)

GenerateStartIn(D) ==
    \E r \in RunIds, start \in D, end \in D :
        MayStart(r) /\ generate_read_providers(r, start, end)

GenerateStart == GenerateStartIn(Days)
GenerateStartConc == GenerateStartIn(1..MaxConcDay)

GenerateReadShifts == \E r \in RunIds : generate_read_shifts(r)
GenerateTry == \E r \in RunIds : generate_try(r)
GenerateInsert == \E r \in RunIds : generate_insert(r)

\* the exploration ends with the response to the last of the MaxRuns generate
\* requests: creation requests are followed only up to there
Pending == \E r \in RunIds : runs[r].pc = "idle"

\* requests handled one at a time
Next ==
    \/ Quiescent /\ Pending /\ CreateProvider
    \/ Quiescent /\ Pending /\ CreateShiftType
    \/ Quiescent /\ GenerateStart
    \/ GenerateReadShifts
    \/ GenerateTry
    \/ GenerateInsert

Spec == Init /\ [][Next]_vars

\* a request being handled keeps running: the handler is one uninterrupted
\* function body, and every step of it is enabled until it returns
SpecLive == Spec /\ WF_vars(GenerateReadShifts \/ GenerateTry \/ GenerateInsert)

\* generate requests handled concurrently: every step of a handler is one
\* store read or one store insert, and the steps of different runs interleave
\* freely; creation requests arrive while no run is in flight
NextConc ==
    \/ Quiescent /\ Pending /\ CreateProvider
    \/ Quiescent /\ Pending /\ CreateShiftType
    \/ GenerateStartConc
    \/ GenerateReadShifts
    \/ GenerateTry
    \/ GenerateInsert

SpecConc == Init /\ [][NextConc]_vars

\* creation requests handled concurrently: the handlers are plain functions
\* run on worker threads, so the lookup of one request and the insert of
\* another interleave freely
CreateProviderLookup ==
    \E c \in CreateIds, provider \in ProviderInputs : create_provider_lookup(c, provider)
CreateProviderInsert == \E c \in CreateIds : create_provider_insert(c)
CreateShiftTypeLookup ==
    \E c \in CreateIds, shift \in ShiftInputs : create_shift_type_lookup(c, shift)
CreateShiftTypeInsert == \E c \in CreateIds : create_shift_type_insert(c)

NextCreate ==
    \/ CreateProviderLookup
    \/ CreateProviderInsert
    \/ CreateShiftTypeLookup
    \/ CreateShiftTypeInsert

SpecCreate == Init /\ [][NextCreate]_vars

\* ------------------------------------------------- vocabulary of the claims
Done(r) == runs[r].pc = "done"
Started(r) == runs[r].pc \in {"loop", "insert", "done"}
RangeOf(run) == run.start..run.end

\* the store records the run itself inserted for day o
MadeOn(run, o) == {k \in run.made : assignments[k].date = DateStr(o)}

\* how often day o is named in the run's conflicts list
ConflictCount(run, o) ==
    Cardinality({k \in 1..Len(run.conflicts) :
                    run.conflicts[k] = <<"No eligible provider for", DateStr(o)>>})

\* the run is the latest request and has just returned
JustReturned(r) == Done(r) /\ \A q \in RunIds : q > r => runs[q].pc = "idle"

\* positions of the run's providers that pass the qualification gate
Gated(run) ==
    {j \in 1..Len(run.providers) :
        run.needed_qual \in {None, ""}
        \/ run.needed_qual \in run.providers[j].qualifications}

\* ----------------------------------------------------------------------- C1
\* C1: with generate runs executed one at a time, the assignment store never
\* holds two records with the same provider identifier and the same date,
\* whichever runs inserted them.
C1_NoDoubleBooking ==
    \A j, k \in 1..Len(assignments) :
        j # k => ~(/\ assignments[j].provider_id = assignments[k].provider_id
                   /\ assignments[j].date = assignments[k].date)

\* two finished runs both inserted records, and some day carries a record of each
C1_Witness ==
    \E r1, r2 \in RunIds, o \in Days :
        /\ r1 < r2 /\ Done(r1) /\ Done(r2)
        /\ MadeOn(runs[r1], o) # {} /\ MadeOn(runs[r2], o) # {}
        /\ Len(runs[r2].shifts) = 2

\* ----------------------------------------------------------------------- C2
\* C2 (as stated): when a run has returned, every day of its range has exactly
\* one of (a) an AI-generated assignment with the selected site in the store,
\* (b) exactly one occurrence of its message in the returned conflicts.
C2_Original ==
    \A r \in RunIds : JustReturned(r) =>
        \A o \in RangeOf(runs[r]) :
            LET a == \E k \in 1..Len(assignments) :
                        /\ assignments[k].date = DateStr(o)
                        /\ assignments[k].generated_by = "AI"
                        /\ assignments[k].site = runs[r].site
                b == ConflictCount(runs[r], o) = 1
            IN (a /\ ~b) \/ (~a /\ b)

\* C2 (amended): when a run that attempts one slot per day has returned, every
\* day of its range has exactly one of (a) an AI-generated assignment with the
\* selected site inserted by this run, (b) exactly one occurrence of its
\* message in the returned conflicts.
C2_DayCoverage ==
    \A r \in RunIds :
        (Done(r) /\ (Len(runs[r].providers) = 1 \/ Len(runs[r].shifts) = 1)) =>
            \A o \in RangeOf(runs[r]) :
                LET a == \E k \in MadeOn(runs[r], o) :
                            /\ assignments[k].generated_by = "AI"
                            /\ assignments[k].site = runs[r].site
                    b == ConflictCount(runs[r], o) = 1
                IN (a /\ ~b) \/ (~a /\ b)

\* a one-slot run returned a conflict for a day that an earlier run had filled
\* with the same site, and filled another day itself
C2_Witness ==
    \E r \in RunIds, o1, o2 \in Days :
        /\ Done(r) /\ Len(runs[r].shifts) = 1
        /\ {o1, o2} \subseteq RangeOf(runs[r])
        /\ ConflictCount(runs[r], o1) = 1
        /\ \E k \in 1..runs[r].base :
              /\ assignments[k].date = DateStr(o1)
              /\ assignments[k].site = runs[r].site
        /\ MadeOn(runs[r], o2) # {}

\* ----------------------------------------------------------------------- C3
\* C3 (as stated): shiftCount is always 1, so every run produces, for each day
\* of its range, exactly one assignment or conflict.
C3_Original ==
    \A r \in RunIds : Done(r) =>
        \A o \in RangeOf(runs[r]) :
            Cardinality(MadeOn(runs[r], o)) + ConflictCount(runs[r], o) = 1

\* C3 (amended): a run produces, for each day of its range, exactly
\* min(providerCount, regShiftCount) assignments plus conflicts, where
\* regShiftCount is the number of REG shift types the store held when the run
\* read them; that number is 1 only when one provider or one REG shift type exists.
C3_SlotsPerDay ==
    \A r \in RunIds : Done(r) =>
        /\ runs[r].shifts = SubSeq(RegShifts(shifts), 1, Len(runs[r].shifts))
        /\ \A o \in RangeOf(runs[r]) :
              Cardinality(MadeOn(runs[r], o)) + ConflictCount(runs[r], o)
                 = Min(Len(runs[r].providers), Len(runs[r].shifts))

\* a run with two REG shift types and two providers produced two results for a day
C3_Witness ==
    \E r \in RunIds, o \in Days :
        /\ Done(r) /\ o \in RangeOf(runs[r])
        /\ Len(runs[r].shifts) = 2 /\ Len(runs[r].providers) = 2
        /\ Cardinality(MadeOn(runs[r], o)) + ConflictCount(runs[r], o) = 2

\* ----------------------------------------------------------------------- C4
\* C4: a run with start_date <= end_date and exactly one REG shift type returns
\* created + len(conflicts) = (end_date - start_date) + 1.
C4_Accounting ==
    \A r \in RunIds :
        (Done(r) /\ runs[r].start <= runs[r].end /\ Len(runs[r].shifts) = 1) =>
            runs[r].resp.created + Len(runs[r].resp.conflicts)
               = (runs[r].end - runs[r].start) + 1

\* a one-shift run over several days returned both assignments and conflicts
C4_Witness ==
    \E r \in RunIds :
        /\ Done(r) /\ Len(runs[r].shifts) = 1
        /\ runs[r].end > runs[r].start
        /\ runs[r].resp.created >= 1 /\ Len(runs[r].resp.conflicts) >= 1

\* ----------------------------------------------------------------------- C5
\* C5: when the selected REG shift type has a required qualification set (a
\* value the gate of line 154 treats as set: neither None nor empty), every
\* record the run inserted references a provider whose qualification list
\* contains that tag.
C5_QualificationGate ==
    \A r \in RunIds :
        (Started(r) /\ runs[r].needed_qual \notin {None, ""}) =>
            \A k \in runs[r].made : \A j \in 1..Len(runs[r].providers) :
                runs[r].providers[j].id = assignments[k].provider_id =>
                    runs[r].needed_qual \in runs[r].providers[j].qualifications

\* a run with a required qualification, a provider lacking it ahead of one
\* holding it, and an assignment made
C5_Witness ==
    \E r \in RunIds :
        /\ Done(r) /\ runs[r].needed_qual = "X"
        /\ Len(runs[r].providers) = 2
        /\ "X" \notin runs[r].providers[1].qualifications
        /\ "X" \in runs[r].providers[2].qualifications
        /\ runs[r].made # {}

\* ----------------------------------------------------------------------- C6
\* the second of two runs over the same range with the store untouched in between
SameRangeRerun(r1, r2) ==
    /\ r1 < r2 /\ Done(r1) /\ Done(r2)
    /\ runs[r1].start = runs[r2].start /\ runs[r1].end = runs[r2].end
    /\ runs[r1].providers = runs[r2].providers
    /\ runs[r1].shifts = runs[r2].shifts
    /\ runs[r2].base = runs[r1].base + Cardinality(runs[r1].made)

C7_Step ==
    \A r \in RunIds :
        /\ (runs[r].pc = "idle" /\ runs'[r].pc # "idle") =>
              /\ runs'[r].providers = providers
              /\ <<providers, shifts, assignments>>' = <<providers, shifts, assignments>>
        /\ (runs[r].pc = "readShifts" /\ runs'[r].pc # "readShifts") =>
              /\ runs'[r].pc = "error" <=>
                    (\/ runs[r].providers = <<>>
                     \/ ~\E k \in 1..Len(shifts) : shifts[k].name = "REG")
              /\ runs'[r].pc = "error" =>
                    /\ <<providers, shifts, assignments>>' = <<providers, shifts, assignments>>
                    /\ runs'[r].made = {}
                    /\ runs'[r].resp = [code |-> 400,
                                        detail |-> "Providers and REG Shift Type required"]
        /\ runs[r].pc = "error" => runs'[r] = runs[r]

\* C7: every step of every behaviour meets the condition above (configuration
\* error exactly on a missing precondition, and without side effects)
C7_ConfigError == [][C7_Step]_vars

\* the call failed although providers and a (non-REG) shift type exist
C7_Witness ==
    \E r \in RunIds :
        /\ runs[r].pc = "error"
        /\ runs[r].providers # <<>>
        /\ shifts # <<>>
        /\ assignments = <<>>

\* ----------------------------------------------------------------------- C8
\* C8: with two generate runs interleaved at single lookups and inserts, a
\* provider can come to hold two assignments for one date, and only in this
\* way: every insert that duplicates a stored (provider, date) pair duplicates
\* a record that another run inserted after the inserting run's own eligibility
\* lookup.
C8_Step ==
    \A r \in RunIds :
        (runs[r].pc = "insert" /\ runs'[r].pc # "insert") =>
            LET new == assignments'[Len(assignments')]
            IN \A k \in 1..Len(assignments) :
                  (/\ assignments[k].provider_id = new.provider_id
                   /\ assignments[k].date = new.date) =>
                      /\ k > runs[r].seen
                      /\ \E q \in RunIds \ {r} : k \in runs[q].made

\* C8: every step of every behaviour meets the condition above (a double
\* booking is reachable, see C8_Witness, and arises only from the race)
C8_RaceOnly == [][C8_Step]_vars

\* the same provider holds two assignments for one date, one from each run,
\* and both runs had made their lookup before the first of the two inserts
C8_Witness ==
    \E r1, r2 \in RunIds : \E j \in runs[r1].made : \E k \in runs[r2].made :
        /\ r1 # r2 /\ j < k
        /\ Done(r1) /\ Done(r2)
        /\ assignments[j].provider_id = assignments[k].provider_id
        /\ assignments[j].date = assignments[k].date
        /\ runs[r1].seen < j /\ runs[r2].seen < j

\* ----------------------------------------------------------------------- C9
UniqueIds(col) == \A j, k \in 1..Len(col) : j # k => col[j].id # col[k].id

\* C9: with creation requests handled one at a time, a request whose id is
\* already stored is answered 400 and leaves its collection unchanged, a
\* request with a fresh id appends exactly one record with that id, nothing
\* else changes the two collections, and no two providers and no two shift
\* types share an id.
C9_Step ==
    /\ reply'.op = "create_provider" =>
          IF \E k \in 1..Len(providers) : providers[k].id = reply'.id
            THEN reply'.code = 400 /\ providers' = providers
            ELSE /\ reply'.code = 200
                 /\ Len(providers') = Len(providers) + 1
                 /\ SubSeq(providers', 1, Len(providers)) = providers
                 /\ providers'[Len(providers')].id = reply'.id
    /\ reply'.op = "create_shift_type" =>
          IF \E k \in 1..Len(shifts) : shifts[k].id = reply'.id
            THEN reply'.code = 400 /\ shifts' = shifts
            ELSE /\ reply'.code = 200
                 /\ Len(shifts') = Len(shifts) + 1
                 /\ SubSeq(shifts', 1, Len(shifts)) = shifts
                 /\ shifts'[Len(shifts')].id = reply'.id
    /\ reply'.op # "create_provider" => providers' = providers
    /\ reply'.op # "create_shift_type" => shifts' = shifts
    /\ UniqueIds(providers') /\ UniqueIds(shifts')

C10_SingleQualifiedProvider ==
    \A r \in RunIds : \A j \in 1..Len(runs[r].providers) :
        LET run == runs[r]
            holders == {q \in 1..Len(run.providers) :
                           run.needed_qual \in run.providers[q].qualifications}
        IN (/\ Done(r) /\ run.start <= run.end
            /\ Len(run.shifts) = 1
            /\ run.needed_qual \notin {None, ""}
            /\ holders = {j}
            /\ \A k \in 1..run.base :
                   ~(/\ assignments[k].provider_id = run.providers[j].id
                     /\ \E o \in RangeOf(run) : assignments[k].date = DateStr(o))) =>
               /\ run.resp.created = (run.end - run.start) + 1
               /\ run.resp.conflicts = <<>>
               /\ \A o \in RangeOf(run) : Cardinality(MadeOn(run, o)) = 1
               /\ \A k \in run.made :
                     assignments[k].provider_id = run.providers[j].id

\* the single holder stands second in the list, other assignments already
\* exist inside the range, and the run covered two days
C10_Witness ==
    \E r \in RunIds :
        LET run == runs[r]
        IN /\ Done(r) /\ run.end > run.start
           /\ Len(run.shifts) = 1 /\ run.needed_qual = "X"
           /\ Len(run.providers) = 2
           /\ "X" \notin run.providers[1].qualifications
           /\ "X" \in run.providers[2].qualifications
           /\ run.base > 0
           /\ run.resp.created = (run.end - run.start) + 1

\* ---------------------------------------------------------------------- C11
\* the run's j-th provider may be assigned day o: no stored assignment of that
\* provider on that date, and the required qualification, when one is set, held
EligibleNow(run, j, o) ==
    /\ ~\E k \in 1..Len(assignments) :
           /\ assignments[k].provider_id = run.providers[j].id
           /\ assignments[k].date = DateStr(o)
    /\ \/ run.needed_qual \in {None, ""}
       \/ run.needed_qual \in run.providers[j].qualifications

\* the position in the provider list that cursor value p designates
RotationIndex(run, p) == (p % Len(run.providers)) + 1

\* C11: for each slot the run examines the providers in rotation order, each at
\* most once, and stops at the first eligible one; a conflict message is
\* appended for the slot only when every provider is ineligible, and a slot
\* ends with an assignment, and no conflict, only for a candidate that is
\* eligible while all candidates examined before it in the slot are not.
C11_Step ==
    \A r \in RunIds :
        LET run == runs[r]
            n == Len(run.providers)
            o == run.start + run.i
            conflictAdded == Len(runs'[r].conflicts) = Len(run.conflicts) + 1
        IN /\ (run.pc = "loop" /\ runs'[r] # run) =>
                 /\ run.tries < n
                 /\ runs'[r].p = run.p + 1
                 /\ conflictAdded <=>
                       (run.tries = n - 1 /\ ~EligibleNow(run, RotationIndex(run, run.p), o))
                 /\ conflictAdded =>
                       /\ \A j \in 1..n : ~EligibleNow(run, j, o)
                       /\ runs'[r].conflicts =
                             Append(run.conflicts, <<"No eligible provider for", DateStr(o)>>)
                       /\ assignments' = assignments
                 /\ runs'[r].pc = "insert" <=> EligibleNow(run, RotationIndex(run, run.p), o)
                 /\ \A t \in 1..run.tries :
                       ~EligibleNow(run, RotationIndex(run, run.p - t), o)
           /\ (run.pc = "insert" /\ runs'[r] # run) =>
                 /\ EligibleNow(run, RotationIndex(run, run.p - 1), o)
                 /\ Len(assignments') = Len(assignments) + 1
                 /\ assignments'[Len(assignments')].provider_id =
                       run.providers[RotationIndex(run, run.p - 1)].id
                 /\ assignments'[Len(assignments')].date = DateStr(o)
                 /\ runs'[r].conflicts = run.conflicts

\* C11: every step of every behaviour meets the condition above (a conflict
\* exactly when nobody is eligible, an assignment for the first eligible one)
C11_ConflictIffNoneEligible == [][C11_Step]_vars

\* a run over two providers recorded a conflict for one day and, on another
\* day, passed over an ineligible provider to assign the next one
C11_Witness ==
    \E r \in RunIds :
        /\ Done(r) /\ Len(runs[r].providers) = 2
        /\ Len(runs[r].shifts) = 1
        /\ Len(runs[r].resp.conflicts) >= 1
        /\ runs[r].resp.created >= 1
        /\ runs[r].p > runs[r].resp.created + 2 * Len(runs[r].resp.conflicts)

\* ---------------------------------------------------------------------- C12
\* with one REG shift type, no required qualification and no earlier assignment
\* inside the range, the record made for the i-th day references providers[i mod N]
C12_Rotation ==
    \A r \in RunIds :
        LET run == runs[r]
            N == Len(run.providers)
        IN (/\ Started(r)
            /\ Len(run.shifts) = 1
            /\ run.needed_qual \in {None, ""}
            /\ \A k \in 1..run.base :
                   ~\E o \in RangeOf(run) : assignments[k].date = DateStr(o)) =>
               /\ \A k \in run.made : \A i \in 0..(run.end - run.start) :
                     assignments[k].date = DateStr(run.start + i) =>
                         assignments[k].provider_id = run.providers[(i % N) + 1].id
               /\ Done(r) =>
                     /\ run.resp.conflicts = <<>>
                     /\ \A o \in RangeOf(run) : Cardinality(MadeOn(run, o)) = 1

\* C12: the cursor p starts at 0, grows by exactly one with every candidate
\* examined and is never reset between days or slots; hence, with N providers,
\* one REG shift type, no required qualification and no earlier assignment
\* inside the range, the i-th day (0-based) is assigned to providers[i mod N].
C12_Step ==
    /\ \A r \in RunIds :
          /\ (runs[r].pc = "readShifts" /\ runs'[r].pc \in {"loop", "done"}) =>
                runs'[r].p = 0
          /\ (runs[r].pc = "loop" /\ runs'[r] # runs[r]) => runs'[r].p = runs[r].p + 1
          /\ (runs[r].pc = "insert" /\ runs'[r] # runs[r]) => runs'[r].p = runs[r].p
          /\ runs[r].pc \in {"done", "error"} => runs'[r].p = runs[r].p
    /\ C12_Rotation'

\* C12: every step of every behaviour meets the condition above (the cursor
\* counts the candidates examined; day i goes to providers[i mod N])
C12_RotationAcrossDays == [][C12_Step]_vars

\* three days over two providers: the rotation wrapped around to providers[0]
C12_Witness ==
    \E r \in RunIds :
        /\ Done(r) /\ Len(runs[r].providers) = 2 /\ Len(runs[r].shifts) = 1
        /\ runs[r].needed_qual \in {None, ""}
        /\ runs[r].start = 1 /\ runs[r].end = 3
        /\ runs[r].resp.created = 3 /\ runs[r].p = 3
        /\ \E k \in MadeOn(runs[r], 3) :
              assignments[k].provider_id = runs[r].providers[1].id

\* ---------------------------------------------------------------------- C13
\* the messages of the list name days of the range in non-decreasing order
ConflictsInDateOrder(run) ==
    /\ \A a \in 1..Len(run.conflicts) :
          \E o \in RangeOf(run) :
              run.conflicts[a] = <<"No eligible provider for", DateStr(o)>>
    /\ \A a, b \in 1..Len(run.conflicts) :
          a < b => \E o1, o2 \in RangeOf(run) :
                      /\ o1 <= o2
                      /\ run.conflicts[a] = <<"No eligible provider for", DateStr(o1)>>
                      /\ run.conflicts[b] = <<"No eligible provider for", DateStr(o2)>>

\* C13 (as stated): the returned conflicts name dates in non-decreasing order,
\* with exactly one message per day the run could not staff and no day named
\* twice.
C13_Original ==
    \A r \in RunIds : Done(r) =>
        /\ ConflictsInDateOrder(runs[r])
        /\ \A o \in RangeOf(runs[r]) :
              /\ ConflictCount(runs[r], o) <= 1
              /\ ConflictCount(runs[r], o) = 1 <=> MadeOn(runs[r], o) = {}

\* C13 (amended): the returned conflicts name dates of the range in
\* non-decreasing order, with one message per slot the run could not fill: a
\* day is named once for each of its min(providerCount, regShiftCount) slots
\* left without an assignment, so a day can be named twice, and can be named
\* although the run made an assignment for it.
C13_ConflictOrdering ==
    \A r \in RunIds : Done(r) =>
        /\ ConflictsInDateOrder(runs[r])
        /\ \A o \in RangeOf(runs[r]) :
              ConflictCount(runs[r], o) =
                 Min(Len(runs[r].providers), Len(runs[r].shifts))
                    - Cardinality(MadeOn(runs[r], o))

\* a two-slot run found everybody booked on two days: each day is named twice
C13_Witness ==
    \E r \in RunIds :
        /\ Done(r) /\ runs[r].end > runs[r].start
        /\ Len(runs[r].resp.conflicts) = 4
        /\ ConflictCount(runs[r], runs[r].start) = 2
        /\ ConflictCount(runs[r], runs[r].start + 1) = 2

\* ---------------------------------------------------------------------- C14
\* C14: every record a generate run inserted has shift_type REG, generated_by
\* AI, a date inside [start_date, end_date], the id of a stored provider, and
\* the site of the first shift type named REG in the store, also when several
\* REG shift types with different sites exist.
C14_RecordShape ==
    \A r \in RunIds : \A k \in runs[r].made :
        /\ assignments[k].shift_type = "REG"
        /\ assignments[k].generated_by = "AI"
        /\ \E o \in RangeOf(runs[r]) : assignments[k].date = DateStr(o)
        /\ \E j \in 1..Len(providers) : providers[j].id = assignments[k].provider_id
        /\ \E f \in 1..Len(shifts) :
              /\ shifts[f].name = "REG"
              /\ \A g \in 1..(f - 1) : shifts[g].name # "REG"
              /\ assignments[k].site = shifts[f].site

\* a run that found two REG shift types with different sites made assignments
C14_Witness ==
    \E r \in RunIds :
        /\ Done(r) /\ runs[r].made # {}
        /\ Len(runs[r].shifts) = 2
        /\ runs[r].shifts[1].site # runs[r].shifts[2].site
        /\ runs[r].end > runs[r].start

\* ---------------------------------------------------------------------- C15
\* C15: a step of a generate run changes no provider and no shift type, keeps
\* every assignment already stored and at most appends to them; when the run
\* returns, the store holds exactly the returned created value more
\* assignments than when the run began.
C15_Step ==
    \A r \in RunIds :
        (runs'[r] # runs[r]) =>
            /\ providers' = providers
            /\ shifts' = shifts
            /\ Len(assignments') \in {Len(assignments), Len(assignments) + 1}
            /\ SubSeq(assignments', 1, Len(assignments)) = assignments
            /\ runs'[r].pc = "done" =>
                  /\ Len(assignments') = runs'[r].base + runs'[r].resp.created
                  /\ Cardinality(runs'[r].made) = runs'[r].resp.created

\* C15: every step of every behaviour meets the condition above (generate
\* only appends assignments, as many as it reports)
C15_GenerateFrame == [][C15_Step]_vars

\* a later run appended records behind those of an earlier run
C15_Witness ==
    \E r \in RunIds :
        /\ Done(r) /\ runs[r].base >= 2
        /\ runs[r].resp.created >= 2
        /\ Len(assignments) = runs[r].base + runs[r].resp.created

\* ---------------------------------------------------------------------- C16
\* lines 146-155 as a function: from cursor p, the candidates of one slot for
\* day o against the stored assignments col; the cursor after the slot, and
\* whether the last candidate taken was approved
RECURSIVE FirstEligible(_, _, _, _, _, _)
FirstEligible(col, provs, qual, o, p, tries) ==
    IF tries = Len(provs)
      THEN [found |-> FALSE, p |-> p]
      ELSE LET c == provs[(p % Len(provs)) + 1]
               booked == \E k \in 1..Len(col) :
                            col[k].provider_id = c.id /\ col[k].date = DateStr(o)
               gate == qual \in {None, ""} \/ qual \in c.qualifications
           IN IF ~booked /\ gate
                THEN [found |-> TRUE, p |-> p + 1]
                ELSE FirstEligible(col, provs, qual, o, p + 1, tries + 1)

\* lines 134-168 as a function of the store contents and the request alone:
\* the assignment collection and the conflicts after slot number s and those
\* following it, the cursor standing at p
RECURSIVE Outcome(_, _, _, _, _, _, _, _)
Outcome(col, conflicts, provs, shs, start, end, s, p) ==
    LET slots == Min(Len(provs), Len(shs))
        total == IF end < start THEN 0 ELSE ((end - start) + 1) * slots
    IN IF s >= total
         THEN [store |-> col, conflicts |-> conflicts]
         ELSE LET o == start + (s \div slots)
                  f == FirstEligible(col, provs, shs[1].requires_qualification, o, p, 0)
                  c == provs[((f.p - 1) % Len(provs)) + 1]
              IN IF f.found
                   THEN Outcome(Append(col, [provider_id |-> c.id, date |-> DateStr(o),
                                             shift_type |-> "REG", site |-> shs[1].site,
                                             generated_by |-> "AI"]),
                                conflicts, provs, shs, start, end, s + 1, f.p)
                   ELSE Outcome(col,
                                Append(conflicts, <<"No eligible provider for", DateStr(o)>>),
                                provs, shs, start, end, s + 1, f.p)

\* C16: every generate invocation starts its rotation at providers[0] whatever
\* earlier invocations did: the assignments a run adds and the response it
\* returns are those the function Outcome gives, with the cursor at 0, for the
\* store contents at the call and the request, so invocations from identical
\* store contents with identical requests create the same assignments and
\* return the same created count and conflicts list.
C16_CursorLocal ==
    \A r \in RunIds : Done(r) =>
        LET run == runs[r]
            out == Outcome(SubSeq(assignments, 1, run.base), <<>>, run.providers,
                           run.shifts, run.start, run.end, 0, 0)
        IN /\ run.resp.conflicts = out.conflicts
           /\ Len(out.store) = run.base + run.resp.created
           /\ SubSeq(assignments, 1, run.base + run.resp.created) = out.store

\* the earlier run left its cursor off providers[0]; the later run, over
\* another day, still gave its first day to providers[0]
C16_Witness ==
    \E r1, r2 \in RunIds :
        /\ r1 < r2 /\ Done(r1) /\ Done(r2)
        /\ runs[r1].providers = runs[r2].providers
        /\ Len(runs[r2].providers) = 2
        /\ runs[r1].p % 2 = 1
        /\ \E k \in MadeOn(runs[r2], runs[r2].start) :
              /\ k = runs[r2].base + 1
              /\ assignments[k].provider_id = runs[r2].providers[1].id

\* ---------------------------------------------------------------------- C17
\* the most candidates a call may examine: days x min(providers, REG shift
\* types) x providers, for the range and the lists the run read
CandidateBudget(run) ==
    LET n == Len(run.providers)
        k == Len(run.shifts)
        days == IF run.end < run.start THEN 0 ELSE (run.end - run.start) + 1
    IN days * (IF n < k THEN n ELSE k) * n

\* a step that records a conflict goes on to the next slot or the next day,
\* and returns only when the slot was the last one of the last day
C17_Step ==
    \A r \in RunIds :
        (runs[r].pc = "loop" /\ Len(runs'[r].conflicts) = Len(runs[r].conflicts) + 1) =>
            LET run == runs[r]
                after == runs'[r]
                lastSlot == run.slot + 1 = Min(Len(run.providers), Len(run.shifts))
                lastDay == run.start + run.i = run.end
            IN IF lastSlot /\ lastDay
                 THEN after.pc = "done" /\ after.resp.code = 200
                 ELSE /\ after.pc = "loop"
                      /\ after.tries = 0
                      /\ IF lastSlot THEN after.i = run.i + 1 /\ after.slot = 0
                                     ELSE after.i = run.i /\ after.slot = run.slot + 1

\* C17: every generate call terminates, with the configuration error or with
\* a result, having examined at most days x min(providerCount, regShiftCount)
\* x providerCount candidates, and a conflict never keeps the run from the
\* slots and days that remain.
C17_Termination ==
    /\ [](\A r \in RunIds : runs[r].p <= CandidateBudget(runs[r]))
    /\ [][C17_Step]_vars
    /\ \A r \in RunIds : Active(r) ~> Finished(r)

\* a finished run whose first day ended in a conflict and which went on to
\* assign a later day
C17_Witness ==
    \E r \in RunIds :
        /\ Done(r)
        /\ ConflictCount(runs[r], runs[r].start) >= 1
        /\ \E o \in RangeOf(runs[r]) : o > runs[r].start /\ MadeOn(runs[r], o) # {}

\* ---------------------------------------------------------------------- C18
\* the step of a call with a reversed range that passes the precondition
C18_Step ==
    \A r \in RunIds :
        (/\ runs[r].pc = "readShifts"
         /\ runs'[r] # runs[r]
         /\ runs[r].end < runs[r].start
         /\ runs[r].providers # <<>>
         /\ \E k \in 1..Len(shifts) : shifts[k].name = "REG") =>
            /\ runs'[r].pc = "done"
            /\ runs'[r].resp = [code |-> 200, created |-> 0, conflicts |-> <<>>]
            /\ assignments' = assignments

\* C18: when end_date is earlier than start_date and providers and REG shift
\* types exist, generate raises no error, returns created = 0 with an empty
\* conflicts list, and leaves the assignment store as it was.
C18_ReversedRange ==
    /\ [][C18_Step]_vars
    /\ [](\A r \in RunIds :
            (runs[r].pc \notin {"idle", "readShifts"} /\ runs[r].end < runs[r].start
                /\ runs[r].resp.code # 400) =>
                    /\ Done(r)
                    /\ runs[r].made = {}
                    /\ runs[r].seen = 0
                    /\ runs[r].p = 0)

\* a reversed range answered over a store that already holds assignments
C18_Witness ==
    \E r \in RunIds :
        /\ Done(r)
        /\ runs[r].end < runs[r].start
        /\ runs[r].providers # <<>>
        /\ runs[r].base >= 1
        /\ Len(assignments) = runs[r].base

\* ---------------------------------------------------------------------- C19
\* two distinct creation requests of the same kind carrying the same id
SameIdPair(c1, c2) ==
    /\ c1 # c2
    /\ creates[c1].kind # None
    /\ creates[c1].kind = creates[c2].kind
    /\ creates[c1].doc.id = creates[c2].doc.id

\* C19 (as claimed; refuted): when two create-provider or two
\* create-shift-type requests carrying the same id interleave at the lookup
\* and the insert, the collection holds at most one record for that id and
\* at most one of the two requests succeeds.
C19_Original ==
    /\ UniqueIds(providers)
    /\ UniqueIds(shifts)
    /\ \A c1, c2 \in CreateIds :
          SameIdPair(c1, c2) => ~(creates[c1].code = 200 /\ creates[c2].code = 200)

\* both requests have passed the lookup and neither has inserted yet
C19_Witness ==
    \E c1, c2 \in CreateIds :
        /\ SameIdPair(c1, c2)
        /\ creates[c1].pc = "insert"
        /\ creates[c2].pc = "insert"

=============================================================================
